---- MODULE Spec2Model ----
(***************************************************************************)
(* Fixed-capacity key/value caches of rafaeljesus/rust-cache:              *)
(*   Queue   (src/src/fifo.rs)  insertion-ordered eviction, FIFO / LIFO    *)
(*   RRCache (src/src/lib.rs)   random replacement                         *)
(* A caller constructs one cache and then calls set / get on it.           *)
(***************************************************************************)
EXTENDS Integers, Sequences, FiniteSets, TLC

\* ------------------------------------------------------------------ bounds
MaxKey == 4          \* keys are 1..MaxKey
MaxCap == 3          \* the capacity passed to new is 0..MaxCap

Keys == 1..MaxKey
Values == {"a", "b"} \* the code never inspects a value: two tell a replacement apart
Capacities == 0..MaxCap
NoValue == "None"    \* Option::None of get
Broken == <<0>>      \* hist once a key was repeated or a set failed

VARIABLES
    inst,            \* which cache the caller constructed: "Queue" or "RRCache"
    capacity,        \* the capacity argument passed to new
    map_capacity,    \* entry_map.capacity() of the constructed cache
    queue,           \* Queue { entry_map, keys, kind }
    rr_cache,        \* RRCache { entry_map, keys }
    last,            \* the last call made and what it returned
    hist             \* keys passed to set so far, kept while all were distinct

vars == <<inst, capacity, map_capacity, queue, rr_cache, last, hist>>

\* ------------------------------------------------------- std collections
\* HashMap::with_capacity(n).capacity().  Neither cache stores the capacity
\* argument: both compare len() with what the map reports.  The standard
\* library (hashbrown) rounds the request up to a power-of-two bucket count
\* and reports the number of elements that fit under its 7/8 load factor:
\* 0 for a request of 0, 3 (4 buckets) for n < 4, 7 (8 buckets) for n < 8 and
\* 7/8 of the next power of two of n*8/7 above that; it is never less than
\* the request and never 1 or 2.  Both set methods insert a new key only
\* while len() < capacity() (after their eviction when the map is full), so
\* the map never grows and capacity() keeps this value.
RECURSIVE NextPowerOfTwo(_, _)
NextPowerOfTwo(n, p) == IF p >= n THEN p ELSE NextPowerOfTwo(n, 2 * p)

HashMapCapacity(n) ==
    IF n = 0 THEN 0
    ELSE IF n < 4 THEN 3
    ELSE IF n < 8 THEN 7
    ELSE (NextPowerOfTwo((n * 8) \div 7, 1) \div 8) * 7

EmptyMap == [k \in {} |-> NoValue]

\* MapInsert that keeps the binding of a key already present (an
\* entry().or_insert() in place of insert())
MapInsert_KeepOld(m, key, value) ==
    [k \in (DOMAIN m) \cup {key} |-> IF k \in DOMAIN m THEN m[k] ELSE value]

\* HashMap::insert: the map with key bound to value (old binding replaced)
MapInsert(m, key, value) ==
    [k \in (DOMAIN m) \cup {key} |-> IF k = key THEN value ELSE m[k]]

\* HashMap::remove / remove_entry: the map without key
MapRemove(m, key) == [k \in (DOMAIN m) \ {key} |-> m[k]]

MapLen(m) == Cardinality(DOMAIN m)

\* slice::swap on a Vec modelled as a sequence; a and b are 0-based
VecSwap(s, a, b) ==
    [i \in 1..Len(s) |-> IF i = a + 1 THEN s[b + 1]
                         ELSE IF i = b + 1 THEN s[a + 1] ELSE s[i]]

\* Vec::pop: the sequence without its last element
VecPop(s) == SubSeq(s, 1, Len(s) - 1)

SeqRange(s) == {s[i] : i \in 1..Len(s)}

\* ------------------------------------------------------------------ Queue
\* QueueInsert with the key pushed onto keys even when it was already resident
QueueInsert_AlwaysPush(em, ks, key, value) ==
    [entry_map |-> MapInsert(em, key, value),
     keys      |-> Append(ks, key),
     ret       |-> "true"]

\* The tail of Queue::set: insert into the map, push the key when it is new
QueueInsert(em, ks, key, value) ==
    [entry_map |-> MapInsert(em, key, value),
     keys      |-> IF key \in DOMAIN em THEN ks ELSE Append(ks, key),
     ret       |-> "true"]

\* QueueEvict that treats an empty keys as "nothing to evict" and lets the
\* insert go on (if let Some(front) = pop_front() { remove } without else)
QueueEvict_IgnoreEmpty(em, ks) ==
    IF ks = <<>>
    THEN [entry_map |-> em, keys |-> ks, ok |-> TRUE]
    ELSE LET front_key == Head(ks)
         IN  IF front_key \notin DOMAIN em
             THEN [entry_map |-> em, keys |-> Tail(ks), ok |-> FALSE]
             ELSE [entry_map |-> MapRemove(em, front_key), keys |-> Tail(ks),
                   ok |-> TRUE]

\* QueueEvict with the front of keys read (front) but not popped
QueueEvict_Peek(em, ks) ==
    IF ks = <<>>
    THEN [entry_map |-> em, keys |-> ks, ok |-> FALSE]
    ELSE LET front_key == Head(ks)
         IN  IF front_key \notin DOMAIN em
             THEN [entry_map |-> em, keys |-> ks, ok |-> FALSE]
             ELSE [entry_map |-> MapRemove(em, front_key), keys |-> ks, ok |-> TRUE]

\* The eviction of Queue::set: pop the front of keys, remove it from the map.
\* The kind field is never read: the front is evicted for both kinds.
QueueEvict(em, ks) ==
    IF ks = <<>>
    THEN [entry_map |-> em, keys |-> ks, ok |-> FALSE]
    ELSE LET front_key == Head(ks)
         IN  IF front_key \notin DOMAIN em
             THEN [entry_map |-> em, keys |-> Tail(ks), ok |-> FALSE]
             ELSE [entry_map |-> MapRemove(em, front_key), keys |-> Tail(ks),
                   ok |-> TRUE]

\* Queue::set on a queue with fields em, ks whose map reports capacity mc
QueueSetResult(em, ks, mc, key, value) ==
    IF mc = MapLen(em)
    THEN LET ev == QueueEvict(em, ks)
         IN  IF ev.ok
             THEN QueueInsert(ev.entry_map, ev.keys, key, value)
             ELSE [entry_map |-> ev.entry_map, keys |-> ev.keys, ret |-> "false"]
    ELSE QueueInsert(em, ks, key, value)

\* Queue::get
QueueGetResult(em, key) == IF key \in DOMAIN em THEN em[key] ELSE NoValue

\* ---------------------------------------------------------------- RRCache
\* Entry::new followed by entry.map.insert(key, value) and entry.idx = idx
NewEntry(key, value, idx) == [map |-> MapInsert(EmptyMap, key, value), idx |-> idx]

\* RRInsert that records len(keys) instead of len(keys) - 1 as the slot
RRInsert_OffByOne(em, ks, key, value) ==
    LET pushed == Append(ks, key)
    IN  [entry_map |-> MapInsert(em, key, NewEntry(key, value, Len(pushed))),
         keys      |-> pushed,
         ret       |-> "true"]

\* The tail of RRCache::set: push the key, record its slot, insert the entry
RRInsert(em, ks, key, value) ==
    LET pushed == Append(ks, key)
    IN  [entry_map |-> MapInsert(em, key, NewEntry(key, value, Len(pushed) - 1)),
         keys      |-> pushed,
         ret       |-> "true"]

\* RRUpdate without the early return: the resident key is pushed and
\* inserted again as if it were new
RRUpdate_FallThrough(em, ks, key, value) ==
    RRInsert([em EXCEPT ![key].map = MapInsert(@, key, value)], ks, key, value)

\* The first branch of RRCache::set: the key is resident, its entry's value
\* is replaced in place
RRUpdate(em, ks, key, value) ==
    [entry_map |-> [em EXCEPT ![key].map = MapInsert(@, key, value)],
     keys      |-> ks,
     ret       |-> "true"]

\* RREvict that, when the drawn key is missing from the map, drops the
\* drawn slot from keys before it returns false
RREvict_DropStale(em, ks, r) ==
    IF ks = <<>>
    THEN [entry_map |-> em, keys |-> ks, ret |-> "false"]
    ELSE LET rand_key == ks[r]
         IN  IF rand_key \notin DOMAIN em
             THEN [entry_map |-> em,
                   keys      |-> VecPop(VecSwap(ks, r - 1, Len(ks) - 1)),
                   ret       |-> "false"]
             ELSE LET idx      == em[rand_key].idx
                      last_idx == Len(ks) - 1
                  IN  IF idx > last_idx
                      THEN [entry_map |-> em, keys |-> ks, ret |-> "panic"]
                      ELSE [entry_map |-> MapRemove(em, rand_key),
                            keys      |-> VecPop(VecSwap(ks, idx, last_idx)),
                            ret       |-> "true"]

\* The eviction of RRCache::set; r is the slot (1-based) that
\* keys.choose(&mut rng) draws.  The drawn key's slot is swapped with the
\* last slot and popped; the idx of the key that moved is left as it was.
\* slice::swap panics on an index that is out of bounds.
RREvict(em, ks, r) ==
    IF ks = <<>>
    THEN [entry_map |-> em, keys |-> ks, ret |-> "false"]
    ELSE LET rand_key == ks[r]
         IN  IF rand_key \notin DOMAIN em
             THEN [entry_map |-> em, keys |-> ks, ret |-> "false"]
             ELSE LET idx      == em[rand_key].idx
                      last_idx == Len(ks) - 1
                  IN  IF idx > last_idx
                      THEN [entry_map |-> em, keys |-> ks, ret |-> "panic"]
                      ELSE [entry_map |-> MapRemove(em, rand_key),
                            keys      |-> VecPop(VecSwap(ks, idx, last_idx)),
                            ret       |-> "true"]

\* RRCache::set on a cache with fields em, ks whose map reports capacity mc
RRSetResult(em, ks, mc, key, value, r) ==
    IF key \in DOMAIN em
    THEN RRUpdate(em, ks, key, value)
    ELSE IF MapLen(em) = mc
    THEN LET ev == RREvict(em, ks, r)
         IN  IF ev.ret = "true"
             THEN RRInsert(ev.entry_map, ev.keys, key, value)
             ELSE ev
    ELSE RRInsert(em, ks, key, value)

\* The slots keys.choose(&mut rng) can return: any slot of keys, and only on
\* the path that reaches the draw (new key, map at capacity, keys non-empty)
Draws(em, ks, mc, key) ==
    IF key \notin DOMAIN em /\ MapLen(em) = mc /\ ks # <<>>
    THEN 1..Len(ks)
    ELSE {1}

\* RRCache::get
RRGetResult(em, key) ==
    IF key \in DOMAIN em
    THEN IF key \in DOMAIN em[key].map THEN em[key].map[key] ELSE NoValue
    ELSE NoValue

\* ------------------------------------------------------------ the machine
Call(op, key, value, ret, got, hit, len) ==
    [op |-> op, key |-> key, value |-> value, ret |-> ret, got |-> got,
     hit |-> hit, len |-> len]

\* Queue::new(capacity, kind) or RRCache::new(capacity): empty structures;
\* the kind field holds the policy the caller chose
Init ==
    /\ inst \in {"Queue", "RRCache"}
    /\ capacity \in Capacities
    /\ map_capacity = HashMapCapacity(capacity)
    /\ \E kind \in {"FIFO", "LIFO"} :
          /\ queue = [entry_map |-> EmptyMap, keys |-> <<>>, kind |-> kind]
          /\ inst = "RRCache" => kind = "FIFO"
    /\ rr_cache = [entry_map |-> EmptyMap, keys |-> <<>>]
    /\ last = Call("new", 0, NoValue, "-", NoValue, FALSE, 0)
    /\ hist = <<>>

Alive == last.ret # "panic"

QueueSet ==
    /\ inst = "Queue"
    /\ Alive
    /\ \E key \in Keys, value \in Values :
          LET res == QueueSetResult(queue.entry_map, queue.keys, map_capacity, key, value)
          IN  /\ queue' = [queue EXCEPT !.entry_map = res.entry_map, !.keys = res.keys]
              /\ last' = Call("set", key, value, res.ret, NoValue,
                              key \in DOMAIN queue.entry_map, MapLen(queue.entry_map))
              /\ hist' = IF hist = Broken \/ key \in SeqRange(hist) \/ res.ret # "true"
                         THEN Broken
                         ELSE Append(hist, key)
    /\ UNCHANGED <<inst, capacity, map_capacity, rr_cache>>

QueueGet ==
    /\ inst = "Queue"
    /\ Alive
    /\ \E key \in Keys :
          last' = Call("get", key, NoValue, "-", QueueGetResult(queue.entry_map, key),
                       key \in DOMAIN queue.entry_map, MapLen(queue.entry_map))
    /\ UNCHANGED <<inst, capacity, map_capacity, queue, rr_cache, hist>>

RRSet ==
    /\ inst = "RRCache"
    /\ Alive
    /\ \E key \in Keys, value \in Values :
       \E r \in Draws(rr_cache.entry_map, rr_cache.keys, map_capacity, key) :
          LET res == RRSetResult(rr_cache.entry_map, rr_cache.keys, map_capacity,
                                 key, value, r)
          IN  /\ rr_cache' = [entry_map |-> res.entry_map, keys |-> res.keys]
              /\ last' = Call("set", key, value, res.ret, NoValue,
                              key \in DOMAIN rr_cache.entry_map,
                              MapLen(rr_cache.entry_map))
              /\ hist' = IF hist = Broken \/ key \in SeqRange(hist) \/ res.ret # "true"
                         THEN Broken
                         ELSE Append(hist, key)
    /\ UNCHANGED <<inst, capacity, map_capacity, queue>>

\* RRCache::get that touches the key it finds: the key's slot is moved to
\* the back of keys, as a recency-tracking cache would do
RRGet_Touch ==
    /\ inst = "RRCache"
    /\ last.ret # "panic"
    /\ \E key \in Keys :
          /\ last' = Call("get", key, NoValue, "-", RRGetResult(rr_cache.entry_map, key),
                          key \in DOMAIN rr_cache.entry_map, MapLen(rr_cache.entry_map))
          /\ rr_cache' = [rr_cache EXCEPT !.keys =
                            IF key \in DOMAIN rr_cache.entry_map
                            THEN Append(SelectSeq(@, LAMBDA k : k # key), key)
                            ELSE @]
    /\ UNCHANGED <<inst, capacity, map_capacity, queue, hist>>

RRGet ==
    /\ inst = "RRCache"
    /\ Alive
    /\ \E key \in Keys :
          last' = Call("get", key, NoValue, "-", RRGetResult(rr_cache.entry_map, key),
                       key \in DOMAIN rr_cache.entry_map, MapLen(rr_cache.entry_map))
    /\ UNCHANGED <<inst, capacity, map_capacity, queue, rr_cache, hist>>

Next == QueueSet \/ QueueGet \/ RRSet \/ RRGet

Spec == Init /\ [][Next]_vars

\* ---------------------------------------------------------------- claims
QueueSetStep == inst = "Queue" /\ last'.op = "set" /\ vars' # vars
RRSetStep == inst = "RRCache" /\ last'.op = "set" /\ vars' # vars

\* C1: in an RRCache every resident key's stored idx locates the key in
\* keys: keys[idx] = key.
C1_RRIndexInvariant ==
    inst = "RRCache" =>
        \A k \in DOMAIN rr_cache.entry_map :
            LET idx == rr_cache.entry_map[k].idx
            IN  idx < Len(rr_cache.keys) /\ rr_cache.keys[idx + 1] = k

\* C2: in an RRCache constructed with capacity >= 1, every set returns true.
C2_RRSetNeverFalse ==
    (inst = "RRCache" /\ capacity >= 1 /\ last.op = "set") => last.ret = "true"

\* C3: in a LIFO Queue of capacity C >= 2, after distinct keys k1..kn with
\* n > C were set, k1 and the most recently set key kn are resident.
C3_LifoOrder ==
    (inst = "Queue" /\ queue.kind = "LIFO" /\ capacity >= 2
        /\ hist # Broken /\ Len(hist) > capacity)
    => /\ hist[1] \in DOMAIN queue.entry_map
       /\ hist[Len(hist)] \in DOMAIN queue.entry_map

\* C4: in a FIFO Queue of capacity C, after distinct keys k1..kn with n > C
\* were set, the resident keys are exactly the last C of them.
C4_FifoOrder ==
    (inst = "Queue" /\ queue.kind = "FIFO" /\ hist # Broken /\ Len(hist) > capacity)
    => DOMAIN queue.entry_map
         = {hist[i] : i \in (Len(hist) - capacity + 1)..Len(hist)}

\* C5: a Queue::set of a resident key while C keys are resident evicts
\* nothing: the resident key set is unchanged, the key gets the new value
\* and every other key keeps its value.
C5_QueueUpdateDoesNotEvict ==
    [][(QueueSetStep /\ last'.key \in DOMAIN queue.entry_map
            /\ MapLen(queue.entry_map) = capacity)
       => /\ DOMAIN queue.entry_map' = DOMAIN queue.entry_map
          /\ \A k \in DOMAIN queue.entry_map :
                queue.entry_map'[k] = IF k = last'.key THEN last'.value
                                      ELSE queue.entry_map[k]]_vars

\* C6: an RRCache::set of a resident key, at any fill level, returns true,
\* replaces that key's value and leaves the resident key set, keys and
\* every stored idx (and every other key's value) unchanged.
C6_RRUpdateInPlace ==
    [][(RRSetStep /\ last'.key \in DOMAIN rr_cache.entry_map)
       => /\ last'.ret = "true"
          /\ rr_cache'.keys = rr_cache.keys
          /\ DOMAIN rr_cache'.entry_map = DOMAIN rr_cache.entry_map
          /\ \A k \in DOMAIN rr_cache.entry_map :
                /\ rr_cache'.entry_map[k].idx = rr_cache.entry_map[k].idx
                /\ RRGetResult(rr_cache'.entry_map, k)
                     = IF k = last'.key THEN last'.value
                       ELSE RRGetResult(rr_cache.entry_map, k)]_vars

\* an RRCache update of a resident key was made with the map at capacity
C6_Witness ==
    /\ inst = "RRCache" /\ last.op = "set" /\ last.hit /\ last.ret = "true"
    /\ capacity >= 1 /\ last.len = capacity /\ last.len = map_capacity
    /\ RRGetResult(rr_cache.entry_map, last.key) = last.value

\* C7: a Queue constructed with capacity C never holds more than C entries.
C7_QueueCapacityBound ==
    inst = "Queue" => MapLen(queue.entry_map) <= capacity

\* C8: an RRCache constructed with capacity C never holds more than C entries.
C8_RRCapacityBound ==
    inst = "RRCache" => MapLen(rr_cache.entry_map) <= capacity

\* C9: in a Queue, keys and entry_map hold exactly the same keys, keys has no
\* duplicate and len(keys) = len(entry_map).
C9_QueueStructure ==
    inst = "Queue" =>
        /\ SeqRange(queue.keys) = DOMAIN queue.entry_map
        /\ Len(queue.keys) = MapLen(queue.entry_map)
        /\ \A i, j \in 1..Len(queue.keys) :
              queue.keys[i] = queue.keys[j] => i = j

\* a Queue::set of a resident key has evicted with the map at capacity
C9_Witness ==
    /\ inst = "Queue" /\ last.op = "set" /\ last.hit /\ last.ret = "true"
    /\ capacity >= 1 /\ last.len = map_capacity
    /\ MapLen(queue.entry_map) < map_capacity

\* C10: in a Queue constructed with capacity >= 1 every set returns true
\* (it neither returns false nor panics).
C10_QueueSetNeverFalse ==
    (inst = "Queue" /\ capacity >= 1 /\ last.op = "set") => last.ret = "true"

\* a Queue::set of a new key has gone through the eviction path and returned true
C10_Witness ==
    /\ inst = "Queue" /\ last.op = "set" /\ ~last.hit /\ last.ret = "true"
    /\ capacity >= 1 /\ last.len = map_capacity
    /\ last.key \in DOMAIN queue.entry_map

GetStep == last'.op = "get" /\ vars' # vars

\* C11: a get (hit or miss, Queue or RRCache) changes nothing of the cache:
\* entry map, values, keys and stored indices stay as they were; it returns
\* what the entry map holds for the key, and a get that follows a get of the
\* same key returns the same result.
C11_GetNeverMutates ==
    [][/\ GetStep =>
            /\ queue' = queue
            /\ rr_cache' = rr_cache
            /\ map_capacity' = map_capacity
            /\ last'.got = IF inst = "Queue"
                           THEN QueueGetResult(queue.entry_map, last'.key)
                           ELSE RRGetResult(rr_cache.entry_map, last'.key)
       /\ (last.op = "get" /\ last'.op = "get" /\ last'.key = last.key)
            => last'.got = last.got]_vars

\* a get has hit a key of an RRCache that is at capacity
C11_Witness ==
    /\ inst = "RRCache" /\ last.op = "get" /\ last.hit /\ last.got # NoValue
    /\ capacity >= 1 /\ last.len = map_capacity

\* C12: a get(k) issued right after a set(k, v) that returned true returns
\* v, in both caches; a get of a key that was never set (or is not resident)
\* returns None.
C12_SetGetRoundTrip ==
    [][/\ (last.op = "set" /\ last.ret = "true" /\ GetStep /\ last'.key = last.key)
            => last'.got = last.value
       /\ (GetStep /\ hist # Broken /\ last'.key \notin SeqRange(hist))
            => last'.got = NoValue
       /\ (GetStep /\ ~last'.hit) => last'.got = NoValue]_vars

\* a Queue::set has replaced a resident key's value with the map at capacity
\* and returned true: the get of that key is the next call
C12_Witness ==
    /\ inst = "Queue" /\ last.op = "set" /\ last.hit /\ last.ret = "true"
    /\ last.len = map_capacity /\ last.len = capacity
    /\ QueueGetResult(queue.entry_map, last.key) = last.value
    /\ \E k \in Keys : k \notin DOMAIN queue.entry_map

\* C13: on an RRCache constructed with capacity 3, after set(1), set(2),
\* set(3), set(4) in that order, each returning true, get(2) returns a value
\* whatever the random draw was.
C13_RRTestKeepsKeyTwo ==
    (inst = "RRCache" /\ capacity = 3 /\ hist = <<1, 2, 3, 4>>)
    => RRGetResult(rr_cache.entry_map, 2) # NoValue

\* The slots of keys whose draw makes the eviction remove key k from the map
EvictingDraws(em, ks, k) ==
    {r \in 1..Len(ks) :
        LET ev == RREvict(em, ks, r)
        IN  ev.ret = "true" /\ k \notin DOMAIN ev.entry_map}

\* C14: whenever an RRCache is at capacity, so that the next set of a new
\* key evicts, every resident key is the victim of exactly one of the
\* len(keys) equally likely draws (equal eviction probability 1/len), and no
\* draw picks a key that is not resident.
C14_RRUniformEviction ==
    (inst = "RRCache" /\ map_capacity > 0
        /\ MapLen(rr_cache.entry_map) = map_capacity)
    => /\ \A r \in 1..Len(rr_cache.keys) :
             rr_cache.keys[r] \in DOMAIN rr_cache.entry_map
       /\ \A k \in DOMAIN rr_cache.entry_map :
             Cardinality(EvictingDraws(rr_cache.entry_map, rr_cache.keys, k)) = 1

\* C15: in an RRCache, keys and entry_map hold exactly the same keys, keys
\* has no duplicate, and the two have the same length.
C15_RRKeySetCoupling ==
    inst = "RRCache" =>
        /\ SeqRange(rr_cache.keys) = DOMAIN rr_cache.entry_map
        /\ Len(rr_cache.keys) = MapLen(rr_cache.entry_map)
        /\ \A i, j \in 1..Len(rr_cache.keys) :
              rr_cache.keys[i] = rr_cache.keys[j] => i = j

\* C16: a Queue::set of a resident key, at any fill level, leaves the order
\* sequence keys exactly as it was.
C16_QueueUpdateKeepsOrder ==
    [][(QueueSetStep /\ last'.key \in DOMAIN queue.entry_map)
       => queue'.keys = queue.keys]_vars

\* C17: on a Queue or an RRCache constructed with capacity 0 every set
\* returns false (no panic), the cache stays empty and every get returns None.
C17_CapacityZero ==
    capacity = 0 =>
        /\ last.op = "set" => last.ret = "false"
        /\ last.op = "get" => last.got = NoValue
        /\ queue.entry_map = EmptyMap /\ queue.keys = <<>>
        /\ rr_cache.entry_map = EmptyMap /\ rr_cache.keys = <<>>

\* a set was called on a Queue constructed with capacity 0
C17_Witness ==
    /\ inst = "Queue" /\ capacity = 0 /\ last.op = "set" /\ last.ret = "false"
    /\ last.key \notin DOMAIN queue.entry_map

\* C18: whenever RRCache::set returns false the cache is exactly as before
\* the call (entry map, values, keys, stored indices) and the key passed to
\* that set is not resident.
C18_RRFailedSetIsNoOp ==
    [][(RRSetStep /\ last'.ret = "false")
       => /\ rr_cache' = rr_cache
          /\ last'.key \notin DOMAIN rr_cache'.entry_map
          /\ ~last'.hit]_vars

\* an RRCache::set on a cache with capacity >= 1 has returned false: the
\* draw picked a key of keys that the map no longer holds
C18_Witness ==
    /\ inst = "RRCache" /\ capacity >= 1 /\ last.op = "set" /\ last.ret = "false"
    /\ \E i \in 1..Len(rr_cache.keys) :
          rr_cache.keys[i] \notin DOMAIN rr_cache.entry_map

\* C19: in an RRCache every stored idx is less than len(keys), keys is
\* non-empty whenever the map is at a capacity >= 1 (so len(keys) - 1 does
\* not underflow on the eviction path), and no set has panicked in swap.
C19_RRIndexInBounds ==
    inst = "RRCache" =>
        /\ \A k \in DOMAIN rr_cache.entry_map :
              rr_cache.entry_map[k].idx < Len(rr_cache.keys)
        /\ (map_capacity > 0 /\ MapLen(rr_cache.entry_map) = map_capacity)
              => rr_cache.keys # <<>>
        /\ last.ret # "panic"

\* an eviction has left a resident key with a stale idx (it points at
\* another key's slot) and a later set has evicted again
C19_Witness ==
    /\ inst = "RRCache" /\ last.op = "set" /\ ~last.hit /\ last.ret = "true"
    /\ capacity >= 1 /\ last.len = map_capacity
    /\ \E k \in DOMAIN rr_cache.entry_map :
          /\ rr_cache.entry_map[k].idx < Len(rr_cache.keys)
          /\ rr_cache.keys[rr_cache.entry_map[k].idx + 1] # k
    /\ SeqRange(rr_cache.keys) # DOMAIN rr_cache.entry_map

Resident == IF inst = "Queue" THEN DOMAIN queue.entry_map
            ELSE DOMAIN rr_cache.entry_map

ValueOf(k) == IF inst = "Queue" THEN QueueGetResult(queue.entry_map, k)
              ELSE RRGetResult(rr_cache.entry_map, k)

\* C20: in both caches (capacity C >= 1) a set of a new key made with fewer
\* than C resident keys evicts nothing: every resident key stays with its
\* value and the count grows by one; a set of a new key made with exactly C
\* resident keys evicts exactly one key.
C20_NoPrematureEviction ==
    [][(last'.op = "set" /\ vars' # vars /\ capacity >= 1
            /\ last'.key \notin Resident)
       => /\ Cardinality(Resident) < capacity
             => /\ Resident' = Resident \cup {last'.key}
                /\ \A k \in Resident : ValueOf(k)' = ValueOf(k)
          /\ Cardinality(Resident) = capacity
             => Cardinality(Resident \ Resident') = 1]_vars
====
